---- MODULE Spec2Model ----
(***************************************************************************)
(* Model of aspirelt/core/app_stack.py: the Aspiration application class.  *)
(*                                                                         *)
(* Python objects that are shared by reference and mutated in place are    *)
(* kept in `heap` (the dictionaries) or in a variable of their own (the    *)
(* router, the user_middleware list).  Objects that are built once and     *)
(* never written again (Middleware specs, the wrapped ASGI applications)   *)
(* are values.                                                             *)
(***************************************************************************)
EXTENDS Integers, Sequences, FiniteSets, TLC

VARIABLES
    debug,               \* self._debug
    exception_handlers,  \* self.exception_handlers: the address of a dict in heap
    heap,                \* the dict objects: address -> <<key, value>> pairs in insertion order
    user_middleware,     \* self.user_middleware: list of Middleware specs
    router,              \* self.router: the calls forwarded to the Router object
    middleware_stack,    \* self.middleware_stack: the wrapped ASGI application
    decorator,           \* the closure last returned by a decorator factory
    ret,                 \* the outcome of the last call of a method of the application
    requests,            \* the calls of __call__ in flight
    response             \* the outcome of the last call of __call__ that finished

vars == <<debug, exception_handlers, heap, user_middleware, router,
          middleware_stack, decorator, ret, requests, response>>

----------------------------------------------------------------------------
(* Bounds of the model *)

MaxObjects == 4       \* dict objects ever allocated
MaxMiddleware == 3    \* length of user_middleware
MaxRoutes == 1        \* calls forwarded to the router
MaxRequests == 1      \* calls of __call__ in flight at once

----------------------------------------------------------------------------
(* Values *)

None == "None"

\* keys of exception_handlers: status codes and exception classes
Keys == {"500", "Exception", "404"}

\* `key in (500, Exception)`
CatchAll == {"500", "Exception"}

Handlers == {"h1", "h2"}
Funcs == {"f"}
MiddlewareClasses == {"GZip"}
MiddlewareTypes == {"http", "websocket"}
Paths == {"/a"}
Apps == {"sub"}

\* the faults a layer, the router or a handler can raise during a request
Faults == {"404", "RuntimeError"}

\* aspire.core.Core, imported as Middleware: iterates as (cls, options, enabled)
MiddlewareSpec(cls, options, enabled) ==
    [cls |-> cls, options |-> options, enabled |-> enabled]

Middleware(cls, options) == MiddlewareSpec(cls, options, TRUE)

\* `app = self.router`: the stack holds the router object itself
RouterRef == [cls |-> "Router"]

\* `cls(app=app, **options)`
Wrap(cls, app, options) == [cls |-> cls, app |-> app, options |-> options]

----------------------------------------------------------------------------
(* Dictionaries: sequences of <<key, value>> with distinct keys, in        *)
(* insertion order (the order of dict.items()).                            *)

DictKeys(d) == {d[i][1] : i \in 1..Len(d)}

DictGet(d, k) == LET i == CHOOSE j \in 1..Len(d) : d[j][1] = k IN d[i][2]

\* d[k] = v: a present key keeps its position, a new key goes last
DictSet(d, k, v) ==
    IF k \in DictKeys(d)
    THEN [i \in 1..Len(d) |-> IF d[i][1] = k THEN <<k, v>> ELSE d[i]]
    ELSE Append(d, <<k, v>>)

\* dict(exception_handlers): a copy, same items in the same order
DictCopy(d) == d

----------------------------------------------------------------------------
(* build_middleware_stack *)

\* the loop keeping the first catch-all handler it meets
RECURSIVE PartitionLoopFirst(_, _, _, _)
PartitionLoopFirst(items, i, error_handler, handlers) ==
    IF i > Len(items) THEN [error_handler |-> error_handler,
                            exception_handlers |-> handlers]
    ELSE IF items[i][1] \in CatchAll
         THEN PartitionLoopFirst(items, i + 1,
                                 IF error_handler = None THEN items[i][2]
                                 ELSE error_handler, handlers)
         ELSE PartitionLoopFirst(items, i + 1, error_handler,
                                 DictSet(handlers, items[i][1], items[i][2]))

\* lines 52-59: the loop over self.exception_handlers.items()
RECURSIVE PartitionLoop(_, _, _, _)
PartitionLoop(items, i, error_handler, handlers) ==
    IF i > Len(items) THEN [error_handler |-> error_handler,
                            exception_handlers |-> handlers]
    ELSE IF items[i][1] \in CatchAll
         THEN PartitionLoop(items, i + 1, items[i][2], handlers)
         ELSE PartitionLoop(items, i + 1, error_handler,
                            DictSet(handlers, items[i][1], items[i][2]))

Partition(items) == PartitionLoop(items, 1, None, <<>>)

\* lines 61-63
ServerErrors(error_handler, dbg) ==
    Middleware("ServerErrorMiddleware", [handler |-> error_handler, debug |-> dbg])

\* lines 64-67: `handlers` is the address of the dict built by the loop
Exceptions(handlers, dbg) ==
    Middleware("ExceptionMiddleware", [handlers |-> handlers, debug |-> dbg])

\* the server-error layer put next to the typed-exception layer
MiddlewareListInner(server_errors, um, exceptions) ==
    um \o <<server_errors, exceptions>>

\* line 69
MiddlewareList(server_errors, um, exceptions) ==
    <<server_errors>> \o um \o <<exceptions>>

\* the loop without its `if enabled:`
RECURSIVE WrapLoopAll(_, _, _)
WrapLoopAll(middleware, i, app) ==
    IF i = 0 THEN app
    ELSE WrapLoopAll(middleware, i - 1,
                     Wrap(middleware[i].cls, app, middleware[i].options))

\* lines 71-75: `for cls, options, enabled in reversed(middleware)`, the
\* elements i, i-1, ..., 1 being still to visit
RECURSIVE WrapLoop(_, _, _)
WrapLoop(middleware, i, app) ==
    IF i = 0 THEN app
    ELSE WrapLoop(middleware, i - 1,
                  IF middleware[i].enabled
                  THEN Wrap(middleware[i].cls, app, middleware[i].options)
                  ELSE app)

\* the typed layer given self.exception_handlers itself
HandlersOptionShared(local, self_eh) == self_eh

\* line 66: the typed layer is given the dict the loop built (at address
\* `local`), not self.exception_handlers (at address `self_eh`)
HandlersOption(local, self_eh) == local

\* the whole method, run with self._debug = dbg, self.exception_handlers = eh
\* (an address of heap h) and self.user_middleware = um: the application it
\* returns and the heap it leaves, `exception_handlers = {}` having allocated
\* a dict at the next free address
build_middleware_stack(dbg, eh, h, um) ==
    LET part == Partition(h[eh])
        local == Len(h) + 1
        middleware == MiddlewareList(ServerErrors(part.error_handler, dbg), um,
                                     Exceptions(HandlersOption(local, eh), dbg))
    IN [app |-> WrapLoop(middleware, Len(middleware), RouterRef),
        heap |-> Append(h, part.exception_handlers)]

----------------------------------------------------------------------------
(* Reading a built stack *)

\* the layers of a wrapped application from the outermost to the router
RECURSIVE Layers(_)
Layers(app) ==
    IF app = RouterRef THEN <<>>
    ELSE <<[cls |-> app.cls, options |-> app.options]>> \o Layers(app.app)

----------------------------------------------------------------------------
(* Construction *)

\* the `middleware` argument of the constructor
InitMiddleware ==
    {<<>>,
     <<MiddlewareSpec("A", [tag |-> "a"], TRUE)>>,
     <<MiddlewareSpec("A", [tag |-> "a"], FALSE), MiddlewareSpec("B", <<>>, TRUE)>>,
     <<MiddlewareSpec("A", [tag |-> "a"], TRUE), MiddlewareSpec("B", <<>>, FALSE)>>,
     <<MiddlewareSpec("A", [tag |-> "a"], TRUE), MiddlewareSpec("B", <<>>, TRUE)>>,
     <<MiddlewareSpec("A", [tag |-> "a"], FALSE), MiddlewareSpec("B", <<>>, FALSE)>>,
     <<MiddlewareSpec("A", [tag |-> "a"], TRUE), MiddlewareSpec("B", <<>>, FALSE),
       MiddlewareSpec("C", <<>>, TRUE)>>}

\* the `exception_handlers` argument of the constructor
InitHandlers ==
    {<<>>,
     <<<<"404", "h1">>>>,
     <<<<"500", "h1">>, <<"Exception", "h2">>>>,
     <<<<"Exception", "h1">>, <<"404", "h2">>, <<"500", "h2">>>>}

NoDecorator == [kind |-> None, arg |-> None]

NoResponse == [kind |-> None]

Returned(op, raised, value) == [op |-> op, raised |-> raised, value |-> value]

\* lines 41-48
Construct(dbg, middleware, handlers) ==
    LET b == build_middleware_stack(dbg, 1, <<DictCopy(handlers)>>, middleware)
    IN /\ debug = dbg
       /\ exception_handlers = 1
       /\ user_middleware = middleware
       /\ router = <<>>
       /\ heap = b.heap
       /\ middleware_stack = b.app
       /\ decorator = NoDecorator
       /\ ret = Returned("__init__", None, None)
       /\ requests = <<>>
       /\ response = NoResponse

Init ==
    \E dbg \in BOOLEAN, middleware \in InitMiddleware, handlers \in InitHandlers :
        Construct(dbg, middleware, handlers)

----------------------------------------------------------------------------
(* The methods that rebuild the stack *)

\* `self.middleware_stack = self.build_middleware_stack()`, run after the
\* fields have taken their primed values
Rebuild(h) ==
    LET b == build_middleware_stack(debug', exception_handlers', h, user_middleware')
    IN /\ middleware_stack' = b.app
       /\ heap' = b.heap

\* the setter with its two lines in the other order: the stack is built
\* from the old flag
set_debug_late(value) ==
    /\ debug' = value
    /\ UNCHANGED <<exception_handlers, user_middleware>>
    /\ LET b == build_middleware_stack(debug, exception_handlers, heap, user_middleware)
       IN /\ middleware_stack' = b.app
          /\ heap' = b.heap

\* lines 85-88
set_debug(value) ==
    /\ debug' = value
    /\ UNCHANGED <<exception_handlers, user_middleware>>
    /\ Rebuild(heap)

\* list.append(x) in the place of list.insert(0, x)
InsertLast(list, x) == Append(list, x)

\* list.insert(0, x)
Insert0(list, x) == <<x>> \o list

\* add_middleware without its second line
add_middleware_stale(middleware_class, kwargs) ==
    /\ user_middleware' = Insert0(user_middleware, Middleware(middleware_class, kwargs))
    /\ UNCHANGED <<debug, exception_handlers, heap, middleware_stack>>

\* lines 99-101
add_middleware(middleware_class, kwargs) ==
    /\ user_middleware' = Insert0(user_middleware, Middleware(middleware_class, kwargs))
    /\ UNCHANGED <<debug, exception_handlers>>
    /\ Rebuild(heap)

\* lines 103-109
add_exception_handler(exc_class_or_status_code, handler) ==
    /\ UNCHANGED <<debug, exception_handlers, user_middleware>>
    /\ Rebuild([heap EXCEPT ![exception_handlers] =
                    DictSet(@, exc_class_or_status_code, handler)])

CanBuild == Len(heap) < MaxObjects

SetDebug(value) ==
    /\ CanBuild
    /\ set_debug(value)
    /\ ret' = Returned("debug", None, None)
    /\ UNCHANGED <<router, decorator, requests, response>>

AddMiddleware(middleware_class, kwargs) ==
    /\ CanBuild
    /\ Len(user_middleware) < MaxMiddleware
    /\ add_middleware(middleware_class, kwargs)
    /\ ret' = Returned("add_middleware", None, None)
    /\ UNCHANGED <<router, decorator, requests, response>>

AddExceptionHandler(key, handler) ==
    /\ CanBuild
    /\ add_exception_handler(key, handler)
    /\ ret' = Returned("add_exception_handler", None, None)
    /\ UNCHANGED <<router, decorator, requests, response>>

----------------------------------------------------------------------------
(* The decorators *)

\* lines 131-138: exception_handler(key) returns the closure
ExceptionHandler(key) ==
    /\ decorator' = [kind |-> "exception_handler", arg |-> key]
    /\ ret' = Returned("exception_handler", None, "decorator")
    /\ UNCHANGED <<debug, exception_handlers, heap, user_middleware, router,
                   middleware_stack, requests, response>>

\* lines 134-136: the closure applied to func
ExceptionHandlerDecorator(func) ==
    /\ decorator.kind = "exception_handler"
    /\ CanBuild
    /\ add_exception_handler(decorator.arg, func)
    /\ ret' = Returned("exception_handler.decorator", None, func)
    /\ UNCHANGED <<router, decorator, requests, response>>

\* middleware() with the check of lines 167-168 left out, as the assert of
\* lines 169-171 is when assertions are off
MiddlewareFactoryUnchecked(middleware_type) ==
    /\ ret' = Returned("middleware", None, "decorator")
    /\ decorator' = [kind |-> "middleware", arg |-> middleware_type]
    /\ UNCHANGED <<debug, exception_handlers, heap, user_middleware, router,
                   middleware_stack, requests, response>>

\* lines 166-177: middleware(middleware_type) raises or returns the closure
MiddlewareFactory(middleware_type) ==
    /\ IF ~(middleware_type = "http")
       THEN /\ ret' = Returned("middleware", "Exception", None)
            /\ UNCHANGED decorator
       ELSE /\ ret' = Returned("middleware", None, "decorator")
            /\ decorator' = [kind |-> "middleware", arg |-> middleware_type]
    /\ UNCHANGED <<debug, exception_handlers, heap, user_middleware, router,
                   middleware_stack, requests, response>>

\* lines 173-175: the closure applied to func
MiddlewareDecorator(func) ==
    /\ decorator.kind = "middleware"
    /\ CanBuild
    /\ Len(user_middleware) < MaxMiddleware
    /\ add_middleware("BaseHTTPMiddleware", [dispatch |-> func])
    /\ ret' = Returned("middleware.decorator", None, func)
    /\ UNCHANGED <<router, decorator, requests, response>>

----------------------------------------------------------------------------
(* The methods that forward to the router *)

\* self.router.<method>(path, ...)
Forward(method, path) == router' = Append(router, <<method, path>>)

CanRoute == Len(router) < MaxRoutes

RouterCall(method, path, value) ==
    /\ CanRoute
    /\ Forward(method, path)
    /\ ret' = Returned(method, None, value)
    /\ UNCHANGED <<debug, exception_handlers, heap, user_middleware,
                   middleware_stack, decorator, requests, response>>

\* lines 93-94
Mount(path, app) == RouterCall("mount", path, None)

\* lines 96-97
Host(host, app) == RouterCall("host", host, None)

\* lines 114-124
AddRoute(path, route) == RouterCall("add_route", path, None)

\* lines 126-129
AddWebsocketRoute(path, route) == RouterCall("add_websocket_route", path, None)

\* lines 140-157 and 159-164: route(path) and websocket_route(path) return
\* the closure
RouteFactory(kind, path) ==
    /\ decorator' = [kind |-> kind, arg |-> path]
    /\ ret' = Returned(kind, None, "decorator")
    /\ UNCHANGED <<debug, exception_handlers, heap, user_middleware, router,
                   middleware_stack, requests, response>>

Route(path) == RouteFactory("route", path)

WebsocketRoute(path) == RouteFactory("websocket_route", path)

\* lines 147-155: the closure applied to func
RouteDecorator(func) ==
    /\ decorator.kind = "route"
    /\ CanRoute
    /\ Forward("add_route", decorator.arg)
    /\ ret' = Returned("route.decorator", None, func)
    /\ UNCHANGED <<debug, exception_handlers, heap, user_middleware,
                   middleware_stack, decorator, requests, response>>

\* lines 160-162: the closure applied to func
WebsocketRouteDecorator(func) ==
    /\ decorator.kind = "websocket_route"
    /\ CanRoute
    /\ Forward("add_websocket_route", decorator.arg)
    /\ ret' = Returned("websocket_route.decorator", None, func)
    /\ UNCHANGED <<debug, exception_handlers, heap, user_middleware,
                   middleware_stack, decorator, requests, response>>

----------------------------------------------------------------------------
(* The layers at work: ServerErrorMiddleware and ExceptionMiddleware of     *)
(* aspire.core.reactor, as section 4.1 of the specification describes them *)

\* the server-error layer catches any fault: the custom handler answers if
\* there is one, otherwise a diagnostic page in debug mode and a generic
\* failure response otherwise
ServerErrorResponse(options, fault) ==
    IF options.handler # None THEN [kind |-> "custom", by |-> options.handler]
    ELSE IF options.debug THEN [kind |-> "diagnostic", by |-> fault]
    ELSE [kind |-> "generic", by |-> None]

\* the typed-exception layer catches the faults its table has a key for
TypedMatch(table, fault) == fault \in DictKeys(table)

\* a fault travelling outwards, about to reach layer i of `layers` (layer 1
\* is the outermost); handler_fault is what a typed handler raises when run
RECURSIVE Propagate(_, _, _, _, _)
Propagate(layers, h, i, fault, handler_fault) ==
    IF i = 0 THEN [kind |-> "uncaught", by |-> fault]
    ELSE IF layers[i].cls = "ServerErrorMiddleware"
         THEN ServerErrorResponse(layers[i].options, fault)
    ELSE IF layers[i].cls = "ExceptionMiddleware"
            /\ TypedMatch(h[layers[i].options.handlers], fault)
         THEN IF handler_fault = None
              THEN [kind |-> "handled",
                    by |-> DictGet(h[layers[i].options.handlers], fault)]
              ELSE Propagate(layers, h, i - 1, handler_fault, None)
    ELSE Propagate(layers, h, i - 1, fault, handler_fault)

\* the places of a stack that run user code: the router and the layers built
\* from user_middleware
Origins(layers) ==
    {Len(layers) + 1} \cup
    {i \in 1..Len(layers) :
        layers[i].cls \notin {"ServerErrorMiddleware", "ExceptionMiddleware"}}

----------------------------------------------------------------------------
(* Requests *)

\* lines 182-184: scope["app"] = self, then self.middleware_stack is read
\* and called
Call ==
    /\ Len(requests) < MaxRequests
    /\ requests' = Append(requests, [scope |-> [app |-> "self"],
                                     stack |-> middleware_stack])
    /\ UNCHANGED <<debug, exception_handlers, heap, user_middleware, router,
                   middleware_stack, decorator, ret, response>>

Remove(seq, r) == [i \in 1..(Len(seq) - 1) |-> IF i < r THEN seq[i] ELSE seq[i + 1]]

\* request r runs to its end without a fault
Respond(r) ==
    /\ r \in 1..Len(requests)
    /\ response' = [kind |-> "ok", by |-> None,
                    origin |-> 0, fault |-> None, handler_fault |-> None]
    /\ requests' = Remove(requests, r)
    /\ UNCHANGED <<debug, exception_handlers, heap, user_middleware, router,
                   middleware_stack, decorator, ret>>

\* request r ends with `fault` raised at place `origin` of its stack
Fail(r, origin, fault, handler_fault) ==
    /\ r \in 1..Len(requests)
    /\ origin \in Origins(Layers(requests[r].stack))
    /\ LET out == Propagate(Layers(requests[r].stack), heap, origin - 1,
                            fault, handler_fault)
       IN response' = [kind |-> out.kind, by |-> out.by, origin |-> origin,
                       fault |-> fault, handler_fault |-> handler_fault]
    /\ requests' = Remove(requests, r)
    /\ UNCHANGED <<debug, exception_handlers, heap, user_middleware, router,
                   middleware_stack, decorator, ret>>

----------------------------------------------------------------------------
(* Specifications *)

\* configuration: the methods that rebuild the stack and their decorators
Next ==
    \/ \E value \in BOOLEAN : SetDebug(value)
    \/ \E cls \in MiddlewareClasses : AddMiddleware(cls, <<>>)
    \/ \E key \in Keys, handler \in Handlers : AddExceptionHandler(key, handler)
    \/ \E key \in Keys : ExceptionHandler(key)
    \/ \E func \in Funcs : ExceptionHandlerDecorator(func)
    \/ \E t \in MiddlewareTypes : MiddlewareFactory(t)
    \/ \E func \in Funcs : MiddlewareDecorator(func)

Spec == Init /\ [][Next]_vars

\* the application as it is by default, Aspiration(debug=dbg), with one
\* handler and one middleware given or none
InitSmall ==
    \E dbg \in BOOLEAN,
       middleware \in {<<>>, <<MiddlewareSpec("A", [tag |-> "a"], TRUE)>>},
       handlers \in {<<>>, <<<<"404", "h1">>>>} :
        Construct(dbg, middleware, handlers)

\* configuration and the methods that forward to the router
NextRouter ==
    \/ \E value \in BOOLEAN : SetDebug(value)
    \/ \E cls \in MiddlewareClasses : AddMiddleware(cls, <<>>)
    \/ \E key \in Keys, handler \in Handlers : AddExceptionHandler(key, handler)
    \/ \E path \in Paths, app \in Apps : Mount(path, app)
    \/ \E path \in Paths, app \in Apps : Host(path, app)
    \/ \E path \in Paths, func \in Funcs : AddRoute(path, func)
    \/ \E path \in Paths, func \in Funcs : AddWebsocketRoute(path, func)
    \/ \E path \in Paths : Route(path)
    \/ \E path \in Paths : WebsocketRoute(path)
    \/ \E func \in Funcs : RouteDecorator(func)
    \/ \E func \in Funcs : WebsocketRouteDecorator(func)

SpecRouter == InitSmall /\ [][NextRouter]_vars

\* configuration while requests are in flight
NextRequests ==
    \/ \E value \in BOOLEAN : SetDebug(value)
    \/ \E cls \in MiddlewareClasses : AddMiddleware(cls, <<>>)
    \/ \E key \in {"404", "500"} : AddExceptionHandler(key, "h2")
    \/ Call
    \/ \E r \in 1..MaxRequests : Respond(r)
    \/ \E r \in 1..MaxRequests, origin \in 1..(MaxMiddleware + 3),
          fault \in Faults, handler_fault \in {None, "RuntimeError"} :
            Fail(r, origin, fault, handler_fault)

SpecRequests == InitSmall /\ [][NextRequests]_vars

----------------------------------------------------------------------------
(* Properties *)

Front(seq) == SubSeq(seq, 1, Len(seq) - 1)

Last(seq) == seq[Len(seq)]

\* position of key k in the iteration order of dict d
Pos(d, k) == CHOOSE i \in 1..Len(d) : d[i][1] = k

\* the registered dict, the layers of the current stack and its two fixed layers
Registered == heap[exception_handlers]
CurrentLayers == Layers(middleware_stack)
ServerErrorLayer == CurrentLayers[1]
TypedLayer == Last(CurrentLayers)
TypedTable == heap[TypedLayer.options.handlers]

\* the layer a spec of user_middleware becomes
LayerOf(spec) == [cls |-> spec.cls, options |-> spec.options]

IsEnabled(spec) == spec.enabled

EnabledLayers(um) ==
    LET en == SelectSeq(um, IsEnabled) IN [i \in 1..Len(en) |-> LayerOf(en[i])]

\* the stack and the heap in the given values are what build_middleware_stack
\* leaves when run on the given fields
Consistent(dbg, eh, h, um, stack) ==
    build_middleware_stack(dbg, eh, Front(h), um) = [app |-> stack, heap |-> h]

\* a step that is a call of one of the methods `ops`, changing a field
StepOf(ops) ==
    /\ ret'.op \in ops
    /\ <<debug, heap, user_middleware, router>>' # <<debug, heap, user_middleware, router>>

Rebuilders ==
    {"debug", "add_middleware", "add_exception_handler",
     "exception_handler.decorator", "middleware.decorator"}

Forwarders ==
    {"mount", "host", "add_route", "add_websocket_route",
     "route.decorator", "websocket_route.decorator"}

(* C1: in every state, after the constructor and after every call of the   *)
(* debug setter, add_middleware, add_exception_handler and the two         *)
(* decorators, middleware_stack is what build_middleware_stack produces    *)
(* from the current debug, exception_handlers and user_middleware.         *)
C1_StackConsistent ==
    Consistent(debug, exception_handlers, heap, user_middleware, middleware_stack)

C1_Witness ==
    /\ ret.op = "middleware.decorator"
    /\ Len(heap) = MaxObjects
    /\ Len(user_middleware) >= 2
    /\ C1_StackConsistent

(* C2: the layers of the built stack are, from the outermost inwards, the  *)
(* server-error layer, the enabled specs of user_middleware in list order, *)
(* the typed-exception layer, and then the router; a disabled spec gives   *)
(* no layer.                                                               *)
C2_LayerOrder ==
    LET L == CurrentLayers
        en == EnabledLayers(user_middleware)
    IN /\ Len(L) = Len(en) + 2
       /\ L[1].cls = "ServerErrorMiddleware"
       /\ L[Len(L)].cls = "ExceptionMiddleware"
       /\ SubSeq(L, 2, Len(L) - 1) = en

C2_Witness ==
    /\ Len(user_middleware) = 3
    /\ ~user_middleware[2].enabled
    /\ Len(CurrentLayers) = 4
    /\ CurrentLayers[2].cls = "A"
    /\ CurrentLayers[3].cls = "C"

(* C3: a step that adds a middleware puts its spec at the front of         *)
(* user_middleware; in the rebuilt stack it is the layer just inside the   *)
(* server-error layer, and the layers that were there follow in the order  *)
(* they had.                                                               *)
C3_AddInFront ==
    [][user_middleware' # user_middleware =>
        LET L == Layers(middleware_stack)
            L2 == Layers(middleware_stack')
        IN /\ Tail(user_middleware') = user_middleware
           /\ Len(L2) = Len(L) + 1
           /\ L2[1].cls = "ServerErrorMiddleware"
           /\ L2[2] = LayerOf(user_middleware'[1])
           /\ \A i \in 2..(Len(L) - 1) : L2[i + 1] = L[i]
           /\ L2[Len(L2)].cls = "ExceptionMiddleware"]_vars

\* [m1, m2] = [A, B], then m4 = GZip: the request passes GZip, A, B
C3_Witness ==
    /\ ret.op = "add_middleware"
    /\ Len(CurrentLayers) = 5
    /\ CurrentLayers[2].cls = "GZip"
    /\ CurrentLayers[3].cls = "A"
    /\ CurrentLayers[4].cls = "B"

(* C4 as stated: a step that registers a handler under a catch-all key     *)
(* (500 or Exception) makes that handler the handler option of the         *)
(* server-error layer of the rebuilt stack.                                *)
C4_RegisteredBecomesHandler ==
    [][\A key \in CatchAll, handler \in Handlers \cup Funcs :
         (/\ heap'[exception_handlers] # Registered
          /\ heap'[exception_handlers] = DictSet(Registered, key, handler))
         => Layers(middleware_stack')[1].options.handler = handler]_vars

(* C5 as stated: a step that sets debug from false to true leaves the      *)
(* sequence of layers, user_middleware, exception_handlers and the         *)
(* configuration of every layer but the server-error layer as they were.   *)
C5_OnlyServerErrorChanges ==
    [][(~debug /\ debug') =>
        LET L == Layers(middleware_stack)
            L2 == Layers(middleware_stack')
        IN /\ user_middleware' = user_middleware
           /\ heap'[exception_handlers'] = Registered
           /\ Len(L2) = Len(L)
           /\ \A i \in 1..Len(L) : L2[i].cls = L[i].cls
           /\ \A i \in 2..(Len(L) - 1) : L2[i].options = L[i].options
           /\ Last(L2).options.debug = Last(L).options.debug
           /\ heap'[Last(L2).options.handlers] = heap[Last(L).options.handlers]]_vars

(* C5 amended: a step that sets debug from false to true turns the debug   *)
(* option of the server-error layer and of the typed-exception layer to    *)
(* true and leaves everything else as it was: the sequence of layers,      *)
(* user_middleware, exception_handlers, the handler of the server-error    *)
(* layer, the user layers and the table of the typed-exception layer.      *)
C5_OnlyDebugOptionsChange ==
    [][(~debug /\ debug') =>
        LET L == Layers(middleware_stack)
            L2 == Layers(middleware_stack')
        IN /\ user_middleware' = user_middleware
           /\ heap'[exception_handlers'] = Registered
           /\ Len(L2) = Len(L)
           /\ \A i \in 1..Len(L) : L2[i].cls = L[i].cls
           /\ \A i \in 2..(Len(L) - 1) : L2[i].options = L[i].options
           /\ ~L[1].options.debug /\ L2[1].options.debug
           /\ L2[1].options.handler = L[1].options.handler
           /\ ~Last(L).options.debug /\ Last(L2).options.debug
           /\ heap'[Last(L2).options.handlers] = heap[Last(L).options.handlers]]_vars

C5_Witness ==
    /\ ret.op = "debug"
    /\ debug
    /\ ServerErrorLayer.options.debug
    /\ TypedLayer.options.debug
    /\ Len(CurrentLayers) = 4
    /\ ServerErrorLayer.options.handler # None
    /\ Len(TypedTable) > 0

(* C6 as stated: every mutator, mount and add_route among them, has        *)
(* regenerated middleware_stack when it returns.                           *)
C6_EveryMutatorRebuilds ==
    [][StepOf(Rebuilders \cup Forwarders) =>
        /\ middleware_stack' # middleware_stack
        /\ Len(heap') = Len(heap) + 1]_vars

(* C6 amended: the debug setter, add_middleware and add_exception_handler  *)
(* have rebuilt middleware_stack from the updated fields when they return; *)
(* mount, host, add_route and add_websocket_route and the route decorators *)
(* forward to the router and leave middleware_stack as it is.              *)
C6_RebuildersRebuild ==
    [][/\ StepOf(Rebuilders) =>
            /\ Len(heap') = Len(heap) + 1
            /\ middleware_stack' # middleware_stack
            /\ Consistent(debug', exception_handlers', heap', user_middleware',
                          middleware_stack')
       /\ StepOf(Forwarders) =>
            /\ Len(router') = Len(router) + 1
            /\ middleware_stack' = middleware_stack
            /\ heap' = heap]_vars

C6_Witness ==
    /\ ret.op = "mount"
    /\ router = <<<<"mount", "/a">>>>
    /\ Len(heap) = 3
    /\ Len(user_middleware) = 2

\* the handlers registered under the catch-all keys
CatchAllHandlers(d) == {DictGet(d, k) : k \in DictKeys(d) \cap CatchAll}

(* C7: a request that runs on the stack of the current configuration and   *)
(* ends with a fault raised by the router, by a user layer or by a typed   *)
(* handler, the typed-exception layer not having answered it, is answered  *)
(* by the server-error layer: by a custom catch-all handler when one is    *)
(* registered, otherwise with a diagnostic of the fault when debug is true *)
(* and with a generic failure when debug is false.                         *)
C7_FaultReachesServerError ==
    [][(Len(requests') < Len(requests) /\ response'.kind # "ok") =>
        \A r \in 1..Len(requests) :
          (requests' = Remove(requests, r) /\ requests[r].stack = middleware_stack)
          => LET origin == response'.origin
                 fault == response'.fault
                 handler_fault == response'.handler_fault
                 matched ==
                     /\ origin = Len(CurrentLayers) + 1
                     /\ fault \in DictKeys(Registered) \ CatchAll
                 last == IF matched THEN handler_fault ELSE fault
             IN IF matched /\ handler_fault = None
                THEN response'.kind = "handled"
                ELSE IF CatchAllHandlers(Registered) # {}
                THEN /\ response'.kind = "custom"
                     /\ response'.by \in CatchAllHandlers(Registered)
                ELSE IF debug
                THEN response'.kind = "diagnostic" /\ response'.by = last
                ELSE response'.kind = "generic"]_vars

\* a typed handler ran for a 404 of the router, raised, and the caller got
\* the diagnostic of what it raised
C7_Witness ==
    /\ response.kind = "diagnostic"
    /\ response.fault = "404"
    /\ response.handler_fault = "RuntimeError"
    /\ response.by = "RuntimeError"
    /\ debug

(* C8: middleware(kind) with a kind other than "http" raises at once and   *)
(* changes no field; with "http" it returns a decorator and registers      *)
(* nothing; the decorator applied to a function adds one spec of           *)
(* BaseHTTPMiddleware with that function at the front of user_middleware,  *)
(* rebuilds the stack and returns the function.                            *)
C8_MiddlewareKind ==
    [][/\ \A t \in MiddlewareTypes :
            MiddlewareFactory(t) =>
                /\ UNCHANGED <<debug, exception_handlers, heap, user_middleware,
                               middleware_stack>>
                /\ (t # "http") => (ret'.raised = "Exception" /\ UNCHANGED decorator)
                /\ (t = "http") => (ret'.raised = None /\ ret'.value = "decorator")
       /\ \A func \in Funcs :
            MiddlewareDecorator(func) =>
                /\ decorator.arg = "http"
                /\ user_middleware' =
                     <<MiddlewareSpec("BaseHTTPMiddleware", [dispatch |-> func], TRUE)>>
                         \o user_middleware
                /\ Consistent(debug', exception_handlers', heap', user_middleware',
                              middleware_stack')
                /\ debug' = debug
                /\ heap'[exception_handlers'] = Registered
                /\ ret'.raised = None
                /\ ret'.value = func]_vars

\* a decorator was applied, and a later middleware("websocket") raised
C8_Witness ==
    /\ ret = Returned("middleware", "Exception", None)
    /\ Len(user_middleware) > 0
    /\ user_middleware[1] = MiddlewareSpec("BaseHTTPMiddleware", [dispatch |-> "f"], TRUE)
    /\ C1_StackConsistent

\* the dicts a wrapped application refers to
TableOf(stack) == Last(Layers(stack)).options.handlers

(* C9: a request runs on the stack middleware_stack referred to when it    *)
(* was dispatched, with the application as scope["app"]; while it is in    *)
(* flight no step changes the typed-handler table of its stack, and a      *)
(* rebuild puts a new stack, no request's, in middleware_stack; a request  *)
(* dispatched next gets the stack of the current configuration.            *)
C9_InFlightStackUntouched ==
    [][/\ \A r \in 1..Len(requests) :
            /\ heap'[TableOf(requests[r].stack)] = heap[TableOf(requests[r].stack)]
            /\ requests' = requests =>
                 /\ middleware_stack' # middleware_stack =>
                        /\ middleware_stack' # requests[r].stack
                        /\ TableOf(middleware_stack') # TableOf(requests[r].stack)
       /\ Len(requests') > Len(requests) =>
            /\ Front(requests') = requests
            /\ Last(requests').scope.app = "self"
            /\ Last(requests').stack = middleware_stack
            /\ Consistent(debug, exception_handlers, heap, user_middleware,
                          Last(requests').stack)]_vars

\* a handler was registered while the request was in flight: the table of
\* its stack is not the table of the current stack
C9_Witness ==
    /\ Len(requests) > 0
    /\ requests[1].stack # middleware_stack
    /\ heap[TableOf(requests[1].stack)] # TypedTable
    /\ ret.op = "add_exception_handler"

(* C10: with handlers registered under both 500 and Exception, the typed   *)
(* table holds neither key and the handler of the server-error layer is    *)
(* the handler of the key that comes later in the iteration order of       *)
(* exception_handlers.                                                     *)
C10_LaterCatchAllWins ==
    (CatchAll \subseteq DictKeys(Registered)) =>
        LET later == IF Pos(Registered, "500") > Pos(Registered, "Exception")
                     THEN "500" ELSE "Exception"
        IN /\ DictKeys(TypedTable) \cap CatchAll = {}
           /\ ServerErrorLayer.options.handler = DictGet(Registered, later)
           /\ \A i \in 2..Len(CurrentLayers) :
                "handler" \notin DOMAIN CurrentLayers[i].options

\* the handler of 500 was the last one registered, by the decorator, and
\* the handler of Exception, whose key comes later, is the one in use
C10_Witness ==
    /\ CatchAll \subseteq DictKeys(Registered)
    /\ ret.op = "exception_handler.decorator"
    /\ decorator.arg = "500"
    /\ DictGet(Registered, "500") = "f"
    /\ Pos(Registered, "Exception") > Pos(Registered, "500")
    /\ ServerErrorLayer.options.handler = DictGet(Registered, "Exception")
    /\ ServerErrorLayer.options.handler # "f"

====
